---- MODULE Spec2Model ----
(* Job-status state machine of the MXJob controller                        *)
(* (pkg/controller.v1/mxnet/status.go).                                    *)
(*                                                                         *)
(* Time: metav1.Now() returns the variable clock, the least timestamp not  *)
(* yet stored in the status.  Storing a reading advances clock by one, so  *)
(* timestamps stored from different readings are never equal and later     *)
(* readings are larger; a reading that is dropped (the condition was not   *)
(* inserted) leaves no trace and does not advance it.  The two Now() reads *)
(* inside newCondition are one instant.  A nil                             *)
(* *metav1.Time / *MXJobCondition is the empty sequence, a non-nil one a   *)
(* one-element sequence.  The Message field of a condition is a function   *)
(* of its type and the job name and is left out.                           *)
EXTENDS Integers, Sequences, FiniteSets, TLC

\* ------------------------------------------------------------------ bounds
MaxPods == 2
MaxReplicas == 1
MaxClock == 4

\* --------------------------------------------------------------- constants
MXReplicaTypeScheduler == "Scheduler"
MXReplicaTypeWorker == "Worker"
MXReplicaTypeTuner == "Tuner"
\* Every other replica type of the API (Server, TunerTracker, TunerServer) takes
\* the path of Worker in a job with a scheduler and of Scheduler in one without.
ReplicaTypes == {MXReplicaTypeScheduler, MXReplicaTypeWorker, MXReplicaTypeTuner}

MXJobCreated == "Created"
MXJobRunning == "Running"
MXJobRestarting == "Restarting"
MXJobSucceeded == "Succeeded"
MXJobFailed == "Failed"
ConditionTypes == {MXJobCreated, MXJobRunning, MXJobRestarting, MXJobSucceeded, MXJobFailed}

mxJobCreatedReason == "MXJobCreated"
mxJobSucceededReason == "MXJobSucceeded"
mxJobRunningReason == "MXJobRunning"
mxJobFailedReason == "MXJobFailed"
mxJobRestartingReason == "MXJobRestarting"

ConditionTrue == "True"
ConditionFalse == "False"

PodPending == "Pending"
PodRunning == "Running"
PodSucceeded == "Succeeded"
PodFailed == "Failed"
PodUnknown == "Unknown"
PodPhases == {PodPending, PodRunning, PodSucceeded, PodFailed, PodUnknown}

VARIABLES
  StartTime,          \* mxjob.Status.StartTime: <<>> (nil) or <<t>>
  CompletionTime,     \* mxjob.Status.CompletionTime: <<>> (nil) or <<t>>
  Conditions,         \* mxjob.Status.Conditions: ordered sequence of conditions
  MXReplicaStatuses,  \* mxjob.Status.MXReplicaStatuses: map rtype -> counters
  clock,              \* the value metav1.Now() returns
  ActiveDeadlineSeconds, \* mxjob.Spec.ActiveDeadlineSeconds # nil
  AddAfter            \* number of tc.WorkQueue.AddAfter calls made so far

vars ==
  <<StartTime, CompletionTime, Conditions, MXReplicaStatuses, clock,
    ActiveDeadlineSeconds, AddAfter>>

\* ------------------------------------------------------- pure functions
newCondition(conditionType, reason, now) ==
  [Type |-> conditionType,
   Status |-> ConditionTrue,
   LastUpdateTime |-> now,
   LastTransitionTime |-> now,
   Reason |-> reason]

\* Returns the last element whatever condType is; <<>> is nil.
getCondition(conds, condType) ==
  IF Len(conds) > 0 THEN <<conds[Len(conds)]>> ELSE <<>>

hasCondition(conds, condType) ==
  \E i \in 1..Len(conds) :
    conds[i].Type = condType /\ conds[i].Status = ConditionTrue

isSucceeded(conds) == hasCondition(conds, MXJobSucceeded)

isFailed(conds) == hasCondition(conds, MXJobFailed)

\* filterOutCondition without lines 243-245: Restarting keeps Running.
RECURSIVE filterOutConditionKeepsRunning(_, _)
filterOutConditionKeepsRunning(conds, condType) ==
  IF conds = <<>> THEN <<>>
  ELSE
    LET c == Head(conds)
        rest == filterOutConditionKeepsRunning(Tail(conds), condType)
    IN
      IF condType = MXJobRunning /\ c.Type = MXJobRestarting THEN rest
      ELSE IF c.Type = condType THEN rest
      ELSE IF (condType = MXJobFailed \/ condType = MXJobSucceeded) /\ c.Type = MXJobRunning
        THEN <<[c EXCEPT !.Status = ConditionFalse]>> \o rest
      ELSE <<c>> \o rest

\* filterOutCondition without lines 250-252: entries of the inserted type stay.
RECURSIVE filterOutConditionKeepsSameType(_, _)
filterOutConditionKeepsSameType(conds, condType) ==
  IF conds = <<>> THEN <<>>
  ELSE
    LET c == Head(conds)
        rest == filterOutConditionKeepsSameType(Tail(conds), condType)
    IN
      IF condType = MXJobRestarting /\ c.Type = MXJobRunning THEN rest
      ELSE IF condType = MXJobRunning /\ c.Type = MXJobRestarting THEN rest
      ELSE IF (condType = MXJobFailed \/ condType = MXJobSucceeded) /\ c.Type = MXJobRunning
        THEN <<[c EXCEPT !.Status = ConditionFalse]>> \o rest
      ELSE <<c>> \o rest

\* filterOutCondition without lines 254-257: Running keeps its status.
RECURSIVE filterOutConditionNoDowngrade(_, _)
filterOutConditionNoDowngrade(conds, condType) ==
  IF conds = <<>> THEN <<>>
  ELSE
    LET c == Head(conds)
        rest == filterOutConditionNoDowngrade(Tail(conds), condType)
    IN
      IF condType = MXJobRestarting /\ c.Type = MXJobRunning THEN rest
      ELSE IF condType = MXJobRunning /\ c.Type = MXJobRestarting THEN rest
      ELSE IF c.Type = condType THEN rest
      ELSE <<c>> \o rest

\* filterOutCondition without lines 246-248: Running keeps Restarting.
RECURSIVE filterOutConditionKeepsRestarting(_, _)
filterOutConditionKeepsRestarting(conds, condType) ==
  IF conds = <<>> THEN <<>>
  ELSE
    LET c == Head(conds)
        rest == filterOutConditionKeepsRestarting(Tail(conds), condType)
    IN
      IF condType = MXJobRestarting /\ c.Type = MXJobRunning THEN rest
      ELSE IF c.Type = condType THEN rest
      ELSE IF (condType = MXJobFailed \/ condType = MXJobSucceeded) /\ c.Type = MXJobRunning
        THEN <<[c EXCEPT !.Status = ConditionFalse]>> \o rest
      ELSE <<c>> \o rest

RECURSIVE filterOutCondition(_, _)
filterOutCondition(conds, condType) ==
  IF conds = <<>> THEN <<>>
  ELSE
    LET c == Head(conds)
        rest == filterOutCondition(Tail(conds), condType)
    IN
      IF condType = MXJobRestarting /\ c.Type = MXJobRunning THEN rest
      ELSE IF condType = MXJobRunning /\ c.Type = MXJobRestarting THEN rest
      ELSE IF c.Type = condType THEN rest
      ELSE IF (condType = MXJobFailed \/ condType = MXJobSucceeded) /\ c.Type = MXJobRunning
        THEN <<[c EXCEPT !.Status = ConditionFalse]>> \o rest
      ELSE <<c>> \o rest

\* setCondition without lines 217-220: a completed status is still updated.
setConditionNoLock(conds, condition) ==
  LET currentCond == getCondition(conds, condition.Type)
  IN
    IF currentCond # <<>> /\ currentCond[1].Status = condition.Status
                          /\ currentCond[1].Reason = condition.Reason
    THEN conds
    ELSE
      LET cond2 ==
            IF currentCond # <<>> /\ currentCond[1].Status = condition.Status
            THEN [condition EXCEPT !.LastTransitionTime = currentCond[1].LastTransitionTime]
            ELSE condition
      IN Append(filterOutCondition(conds, condition.Type), cond2)

\* setCondition without lines 224-227: an unchanged condition is appended again.
setConditionAlwaysUpdate(conds, condition) ==
  IF isFailed(conds) \/ isSucceeded(conds) THEN conds
  ELSE
    LET currentCond == getCondition(conds, condition.Type)
        cond2 ==
          IF currentCond # <<>> /\ currentCond[1].Status = condition.Status
          THEN [condition EXCEPT !.LastTransitionTime = currentCond[1].LastTransitionTime]
          ELSE condition
    IN Append(filterOutCondition(conds, condition.Type), cond2)

\* setCondition with isFailed alone in the test of line 218.
setConditionLockOnFailedOnly(conds, condition) ==
  IF isFailed(conds) THEN conds
  ELSE
    LET currentCond == getCondition(conds, condition.Type)
    IN
      IF currentCond # <<>> /\ currentCond[1].Status = condition.Status
                            /\ currentCond[1].Reason = condition.Reason
      THEN conds
      ELSE
        LET cond2 ==
              IF currentCond # <<>> /\ currentCond[1].Status = condition.Status
              THEN [condition EXCEPT !.LastTransitionTime = currentCond[1].LastTransitionTime]
              ELSE condition
        IN Append(filterOutCondition(conds, condition.Type), cond2)

\* setCondition without lines 229-232: lastTransitionTime is never carried over.
setConditionNoCarry(conds, condition) ==
  IF isFailed(conds) \/ isSucceeded(conds) THEN conds
  ELSE
    LET currentCond == getCondition(conds, condition.Type)
    IN
      IF currentCond # <<>> /\ currentCond[1].Status = condition.Status
                            /\ currentCond[1].Reason = condition.Reason
      THEN conds
      ELSE Append(filterOutCondition(conds, condition.Type), condition)

setCondition(conds, condition) ==
  IF isFailed(conds) \/ isSucceeded(conds) THEN conds
  ELSE
    LET currentCond == getCondition(conds, condition.Type)
    IN
      IF currentCond # <<>> /\ currentCond[1].Status = condition.Status
                            /\ currentCond[1].Reason = condition.Reason
      THEN conds
      ELSE
        LET cond2 ==
              IF currentCond # <<>> /\ currentCond[1].Status = condition.Status
              THEN [condition EXCEPT !.LastTransitionTime = currentCond[1].LastTransitionTime]
              ELSE condition
        IN Append(filterOutCondition(conds, condition.Type), cond2)

\* A job value j is the record of the fields an operation reads and writes,
\* with the trace of one call: applied, the condition types the call handed to
\* updateMXJobConditions in order, and ret, the error it returns ("nil", "err").
updateMXJobConditions(j, conditionType, reason) ==
  LET condition == newCondition(conditionType, reason, j.clock)
      conds == setCondition(j.Conditions, condition)
  IN [j EXCEPT !.Conditions = conds,
               !.clock = IF conds = j.Conditions THEN @ ELSE @ + 1,
               !.applied = Append(@, conditionType)]

\* setCompletionTime without the nil test: the completion time is overwritten.
setCompletionTimeAlways(j) ==
  [j EXCEPT !.CompletionTime = <<j.clock>>, !.clock = @ + 1]

setCompletionTime(j) ==
  IF j.CompletionTime = <<>>
  THEN [j EXCEPT !.CompletionTime = <<j.clock>>, !.clock = @ + 1]
  ELSE j

\* setStartTime without the deadline test of line 63.
setStartTimeNoDeadlineTest(j) ==
  IF j.StartTime = <<>>
  THEN [j EXCEPT !.StartTime = <<j.clock>>,
                 !.clock = @ + 1,
                 !.AddAfter = @ + 1]
  ELSE j

setStartTime(j) ==
  IF j.StartTime = <<>>
  THEN [j EXCEPT !.StartTime = <<j.clock>>,
                 !.clock = @ + 1,
                 !.AddAfter = IF j.ActiveDeadlineSeconds THEN @ + 1 ELSE @]
  ELSE j

\* topologyBranch with the scheduler group handled like the scheduler-less
\* groups: Succeeded, else Running.
topologyBranchSchedulerElseIf(j, in, expected, running) ==
  IF in.containScheduler
  THEN
    IF in.rtype = MXReplicaTypeScheduler
    THEN
      IF expected = 0
      THEN updateMXJobConditions(setCompletionTime(j), MXJobSucceeded, mxJobSucceededReason)
      ELSE IF running > 0
        THEN updateMXJobConditions(j, MXJobRunning, mxJobRunningReason)
        ELSE j
    ELSE j
  ELSE
    IF in.rtype = MXReplicaTypeWorker \/ in.rtype = MXReplicaTypeTuner
    THEN
      IF expected = 0 \/ in.schedulerCompleted
      THEN updateMXJobConditions(setCompletionTime(j), MXJobSucceeded, mxJobSucceededReason)
      ELSE IF running > 0
        THEN updateMXJobConditions(j, MXJobRunning, mxJobRunningReason)
        ELSE j
    ELSE j

\* topologyBranch without the replica-type test of line 70: in a job with a
\* scheduler every group is handled as the scheduler group.
topologyBranchAnyType(j, in, expected, running) ==
  IF in.containScheduler
  THEN
    LET j1 == IF running > 0
              THEN updateMXJobConditions(j, MXJobRunning, mxJobRunningReason)
              ELSE j
    IN IF expected = 0
       THEN updateMXJobConditions(setCompletionTime(j1), MXJobSucceeded, mxJobSucceededReason)
       ELSE j1
  ELSE
    IF in.rtype = MXReplicaTypeWorker \/ in.rtype = MXReplicaTypeTuner
    THEN
      IF expected = 0 \/ in.schedulerCompleted
      THEN updateMXJobConditions(setCompletionTime(j), MXJobSucceeded, mxJobSucceededReason)
      ELSE IF running > 0
        THEN updateMXJobConditions(j, MXJobRunning, mxJobRunningReason)
        ELSE j
    ELSE j

\* topologyBranch without the Tuner test of line 93.
topologyBranchWorkerOnly(j, in, expected, running) ==
  IF in.containScheduler
  THEN
    IF in.rtype = MXReplicaTypeScheduler
    THEN
      LET j1 == IF running > 0
                THEN updateMXJobConditions(j, MXJobRunning, mxJobRunningReason)
                ELSE j
      IN IF expected = 0
         THEN updateMXJobConditions(setCompletionTime(j1), MXJobSucceeded, mxJobSucceededReason)
         ELSE j1
    ELSE j
  ELSE
    IF in.rtype = MXReplicaTypeWorker
    THEN
      IF expected = 0 \/ in.schedulerCompleted
      THEN updateMXJobConditions(setCompletionTime(j), MXJobSucceeded, mxJobSucceededReason)
      ELSE IF running > 0
        THEN updateMXJobConditions(j, MXJobRunning, mxJobRunningReason)
        ELSE j
    ELSE j

topologyBranch(j, in, expected, running) ==
  IF in.containScheduler
  THEN
    IF in.rtype = MXReplicaTypeScheduler
    THEN
      LET j1 == IF running > 0
                THEN updateMXJobConditions(j, MXJobRunning, mxJobRunningReason)
                ELSE j
      IN IF expected = 0
         THEN updateMXJobConditions(setCompletionTime(j1), MXJobSucceeded, mxJobSucceededReason)
         ELSE j1
    ELSE j
  ELSE
    IF in.rtype = MXReplicaTypeWorker \/ in.rtype = MXReplicaTypeTuner
    THEN
      IF expected = 0 \/ in.schedulerCompleted
      THEN updateMXJobConditions(setCompletionTime(j), MXJobSucceeded, mxJobSucceededReason)
      ELSE IF running > 0
        THEN updateMXJobConditions(j, MXJobRunning, mxJobRunningReason)
        ELSE j
    ELSE j

\* failureBranch as an else of the topology branch: skipped when that branch
\* has applied a condition.
failureBranchElse(j, in, failed) ==
  IF failed > 0 /\ j.applied = <<>>
  THEN
    IF in.restart
    THEN updateMXJobConditions(j, MXJobRestarting, mxJobRestartingReason)
    ELSE updateMXJobConditions(setCompletionTime(j), MXJobFailed, mxJobFailedReason)
  ELSE j

\* failureBranch setting the completion time on a restart as well.
failureBranchCompletes(j, in, failed) ==
  IF failed > 0
  THEN
    IF in.restart
    THEN updateMXJobConditions(setCompletionTime(j), MXJobRestarting, mxJobRestartingReason)
    ELSE updateMXJobConditions(setCompletionTime(j), MXJobFailed, mxJobFailedReason)
  ELSE j

failureBranch(j, in, failed) ==
  IF failed > 0
  THEN
    IF in.restart
    THEN updateMXJobConditions(j, MXJobRestarting, mxJobRestartingReason)
    ELSE updateMXJobConditions(setCompletionTime(j), MXJobFailed, mxJobFailedReason)
  ELSE j

\* updateStatusSingle with the key looked up after the start time is set.
updateStatusSingleLateKeyCheck(j, in) ==
  LET expected == in.replicas - j.MXReplicaStatuses[in.rtype].Succeeded
      running == j.MXReplicaStatuses[in.rtype].Active
      failed == j.MXReplicaStatuses[in.rtype].Failed
      j0 == [j EXCEPT !.applied = <<>>, !.ret = "nil"]
      j1 == setStartTime(j0)
      j2 == topologyBranch(j1, in, expected, running)
  IN IF in.keyErr
     THEN [j1 EXCEPT !.ret = "err"]
     ELSE failureBranch(j2, in, failed)

updateStatusSingle(j, in) ==
  IF in.keyErr
  THEN [j EXCEPT !.applied = <<>>, !.ret = "err"]
  ELSE
    LET expected == in.replicas - j.MXReplicaStatuses[in.rtype].Succeeded
        running == j.MXReplicaStatuses[in.rtype].Active
        failed == j.MXReplicaStatuses[in.rtype].Failed
        j0 == [j EXCEPT !.applied = <<>>, !.ret = "nil"]
        j1 == setStartTime(j0)
        j2 == topologyBranch(j1, in, expected, running)
    IN failureBranch(j2, in, failed)

initializeMXReplicaStatuses(statuses, rtype) ==
  [r \in (DOMAIN statuses) \cup {rtype} |->
     IF r = rtype THEN [Active |-> 0, Succeeded |-> 0, Failed |-> 0] ELSE statuses[r]]

\* updateMXJobReplicaStatuses counting a failed pod as an active one.
updateMXJobReplicaStatusesFailedAsActive(statuses, rtype, phase) ==
  IF phase = PodRunning THEN [statuses EXCEPT ![rtype].Active = @ + 1]
  ELSE IF phase = PodSucceeded THEN [statuses EXCEPT ![rtype].Succeeded = @ + 1]
  ELSE IF phase = PodFailed THEN [statuses EXCEPT ![rtype].Active = @ + 1]
  ELSE statuses

updateMXJobReplicaStatuses(statuses, rtype, phase) ==
  IF phase = PodRunning THEN [statuses EXCEPT ![rtype].Active = @ + 1]
  ELSE IF phase = PodSucceeded THEN [statuses EXCEPT ![rtype].Succeeded = @ + 1]
  ELSE IF phase = PodFailed THEN [statuses EXCEPT ![rtype].Failed = @ + 1]
  ELSE statuses

\* ------------------------------------------------------------- state
Job ==
  [StartTime |-> StartTime, CompletionTime |-> CompletionTime,
   Conditions |-> Conditions, MXReplicaStatuses |-> MXReplicaStatuses,
   clock |-> clock, ActiveDeadlineSeconds |-> ActiveDeadlineSeconds,
   AddAfter |-> AddAfter, applied |-> <<>>, ret |-> "nil"]

SetJob(j) ==
  /\ StartTime' = j.StartTime
  /\ CompletionTime' = j.CompletionTime
  /\ Conditions' = j.Conditions
  /\ MXReplicaStatuses' = j.MXReplicaStatuses
  /\ clock' = j.clock
  /\ ActiveDeadlineSeconds' = j.ActiveDeadlineSeconds
  /\ AddAfter' = j.AddAfter

\* Arguments of an updateStatusSingle call on a job whose group rtype is
\* initialized; containScheduler is what ContainSchedulerSpec(mxjob) returns
\* and keyErr whether KeyFunc(mxjob) fails.
Inputs(statuses) ==
  [rtype : DOMAIN statuses,
   replicas : 0..MaxReplicas,
   restart : BOOLEAN,
   schedulerCompleted : BOOLEAN,
   containScheduler : BOOLEAN,
   keyErr : {FALSE}]

KeyErrInputs(statuses) ==
  [rtype : DOMAIN statuses,
   replicas : {0},
   restart : {FALSE},
   schedulerCompleted : {FALSE},
   containScheduler : {FALSE},
   keyErr : {TRUE}]

TotalPods(statuses) ==
  LET RECURSIVE Sum(_)
      Sum(S) == IF S = {} THEN 0
                ELSE LET r == CHOOSE x \in S : TRUE
                     IN statuses[r].Active + statuses[r].Succeeded + statuses[r].Failed
                        + Sum(S \ {r})
  IN Sum(DOMAIN statuses)

Init ==
  /\ StartTime = <<>>
  /\ CompletionTime = <<>>
  /\ Conditions = <<>>
  /\ MXReplicaStatuses = <<>>
  /\ clock = 1
  /\ ActiveDeadlineSeconds \in BOOLEAN
  /\ AddAfter = 0

\* The job is admitted: a Created condition is put on its still empty status.
addMXJob ==
  /\ Conditions = <<>>
  /\ StartTime = <<>>
  /\ SetJob(updateMXJobConditions(Job, MXJobCreated, mxJobCreatedReason))

InitializeReplica ==
  \E rtype \in ReplicaTypes :
    /\ MXReplicaStatuses' = initializeMXReplicaStatuses(MXReplicaStatuses, rtype)
    /\ UNCHANGED <<StartTime, CompletionTime, Conditions, clock, ActiveDeadlineSeconds, AddAfter>>

ObservePod ==
  \E rtype \in DOMAIN MXReplicaStatuses, phase \in PodPhases :
    /\ TotalPods(MXReplicaStatuses) < MaxPods
    /\ MXReplicaStatuses' = updateMXJobReplicaStatuses(MXReplicaStatuses, rtype, phase)
    /\ UNCHANGED <<StartTime, CompletionTime, Conditions, clock, ActiveDeadlineSeconds, AddAfter>>

UpdateStatusSingle ==
  \E in \in Inputs(MXReplicaStatuses) \cup KeyErrInputs(MXReplicaStatuses) :
    /\ clock <= MaxClock
    /\ SetJob(updateStatusSingle(Job, in))

Next ==
  \/ addMXJob
  \/ InitializeReplica
  \/ ObservePod
  \/ UpdateStatusSingle

Spec == Init /\ [][Next]_vars

\* ------------------------------------------------------------ properties
Last(s) == s[Len(s)]

Terminal(conds) == isFailed(conds) \/ isSucceeded(conds)

HasType(conds, t) == \E i \in 1..Len(conds) : conds[i].Type = t

CountType(conds, t) == Cardinality({i \in 1..Len(conds) : conds[i].Type = t})

ReasonOf(t) ==
  CASE t = MXJobCreated -> mxJobCreatedReason
    [] t = MXJobRunning -> mxJobRunningReason
    [] t = MXJobRestarting -> mxJobRestartingReason
    [] t = MXJobSucceeded -> mxJobSucceededReason
    [] t = MXJobFailed -> mxJobFailedReason

\* The calls a reconciliation pass can make in the current state.
Calls == Inputs(MXReplicaStatuses)

ExpectedOf(in) == in.replicas - MXReplicaStatuses[in.rtype].Succeeded
RunningOf(in) == MXReplicaStatuses[in.rtype].Active
FailedOf(in) == MXReplicaStatuses[in.rtype].Failed

\* C1: terminal lock. Once the conditions hold a Succeeded or Failed entry with
\* status true, no step changes the conditions list or completionTime.
C1_TerminalLock ==
  [][Terminal(Conditions) =>
       (Conditions' = Conditions /\ CompletionTime' = CompletionTime)]_vars

\* A terminal status on which a further call hands a condition to
\* updateMXJobConditions; the call leaves the status as it is.
C1_Witness ==
  /\ Terminal(Conditions)
  /\ clock <= MaxClock
  /\ \E in \in Calls :
       LET j1 == updateStatusSingle(Job, in)
       IN /\ j1.applied # <<>>
          /\ Last(j1.applied) \notin {Last(Conditions).Type}
          /\ j1.Conditions = Conditions
          /\ j1.CompletionTime = CompletionTime
StatusOf(j) ==
  [StartTime |-> j.StartTime, CompletionTime |-> j.CompletionTime,
   Conditions |-> j.Conditions, MXReplicaStatuses |-> j.MXReplicaStatuses]

\* The conditions with lastUpdateTime blanked.
WithoutUpdateTime(conds) ==
  [i \in 1..Len(conds) |-> [conds[i] EXCEPT !.LastUpdateTime = 0]]

AppliesBoth(j) ==
  /\ \E i \in 1..Len(j.applied) : j.applied[i] = MXJobRunning
  /\ \E i \in 1..Len(j.applied) : j.applied[i] = MXJobRestarting

\* C2 (as stated): idempotence. A second updateStatusSingle call with the
\* inputs of the first leaves the whole JobStatus, every timestamp included,
\* as the first call left it.
C2_Idempotent ==
  \A in \in Calls :
    LET j1 == updateStatusSingle(Job, in)
        j2 == updateStatusSingle(j1, in)
    IN StatusOf(j2) = StatusOf(j1)

\* C2 (amended): the second call leaves the JobStatus as the first left it,
\* except that a call handing both Running and Restarting to
\* updateMXJobConditions may refresh lastUpdateTime of conditions; types, order,
\* statuses, reasons, lastTransitionTime, startTime and completionTime are equal.
C2_IdempotentButUpdateTime ==
  [](\A in \in Calls :
       LET j1 == updateStatusSingle(Job, in)
           j2 == updateStatusSingle(j1, in)
       IN IF AppliesBoth(j1)
          THEN StatusOf([j2 EXCEPT !.Conditions = WithoutUpdateTime(@)])
                 = StatusOf([j1 EXCEPT !.Conditions = WithoutUpdateTime(@)])
          ELSE StatusOf(j2) = StatusOf(j1))

\* A call that applied Running and then Restarting left [Restarting]; the same
\* call again changes the list, and nothing but lastUpdateTime.
C2_Witness ==
  /\ Len(Conditions) = 1
  /\ Conditions[1].Type = MXJobRestarting
  /\ Conditions[1].LastUpdateTime = Conditions[1].LastTransitionTime + 1
  /\ \E in \in Calls :
       LET j2 == updateStatusSingle(Job, in)
       IN /\ AppliesBoth(j2)
          /\ j2.Conditions # Conditions
          /\ WithoutUpdateTime(j2.Conditions) = WithoutUpdateTime(Conditions)

Counterpart(t) == IF t = MXJobRunning THEN MXJobRestarting ELSE MXJobRunning

\* C3: Running and Restarting are mutually exclusive. No reachable conditions
\* list holds both, and inserting either one leaves no entry of the other.
C3_RunningRestartingExclusive ==
  /\ ~(HasType(Conditions, MXJobRunning) /\ HasType(Conditions, MXJobRestarting))
  /\ \A t \in {MXJobRunning, MXJobRestarting} :
       LET c2 == setCondition(Conditions, newCondition(t, ReasonOf(t), clock))
       IN c2 # Conditions => (Last(c2).Type = t /\ ~HasType(c2, Counterpart(t)))

\* Restarting was inserted after Running (whose lastTransitionTime it
\* carries): Running is gone.
C3_Witness ==
  /\ Len(Conditions) = 1
  /\ Conditions[1].Type = MXJobRestarting
  /\ Conditions[1].LastTransitionTime < Conditions[1].LastUpdateTime

\* C4: set-once timestamps. startTime, once set, and completionTime, once set,
\* are never changed by a later step.
C4_SetOnce ==
  [][/\ (StartTime # <<>> => StartTime' = StartTime)
     /\ (CompletionTime # <<>> => CompletionTime' = CompletionTime)]_vars

\* Both are set, and a further call whose branches reach the completion-time
\* assignment is possible; it leaves both as they are.
C4_Witness ==
  /\ StartTime # <<>>
  /\ CompletionTime # <<>>
  /\ clock <= MaxClock
  /\ \E in \in Calls :
       LET j1 == updateStatusSingle(Job, in)
       IN /\ MXJobSucceeded \in {j1.applied[i] : i \in 1..Len(j1.applied)}
          /\ j1.StartTime = StartTime
          /\ j1.CompletionTime = CompletionTime

NoDuplicateTypes(conds) == \A t \in ConditionTypes : CountType(conds, t) <= 1

\* C5: no duplicate condition types. Every reachable conditions list holds at
\* most one entry of each type, and an insertion of type t leaves exactly one
\* entry of type t, at the end.
C5_NoDuplicateTypes ==
  /\ NoDuplicateTypes(Conditions)
  /\ \A t \in ConditionTypes :
       LET c2 == setCondition(Conditions, newCondition(t, ReasonOf(t), clock))
       IN c2 # Conditions =>
            (Last(c2).Type = t /\ CountType(c2, t) = 1 /\ NoDuplicateTypes(c2))

\* A call left [Created, x]; inserting Created again removes the first entry
\* and appends the new one after x.
C5_Witness ==
  /\ Len(Conditions) = 2
  /\ Conditions[1].Type = MXJobCreated
  /\ ~Terminal(Conditions)
  /\ LET c2 == setCondition(Conditions, newCondition(MXJobCreated, mxJobCreatedReason, clock))
     IN Len(c2) = 2 /\ c2[1] = Conditions[2] /\ c2[2].Type = MXJobCreated
\* The list after a terminal insertion: Running entries get status false,
\* nothing else is touched.
Downgraded(conds) ==
  [i \in 1..Len(conds) |->
     IF conds[i].Type = MXJobRunning
     THEN [conds[i] EXCEPT !.Status = ConditionFalse]
     ELSE conds[i]]

\* C6: inserting Succeeded or Failed into a non-terminal list keeps every
\* entry at its position, a Running entry with status false and otherwise
\* unchanged, every other entry unchanged, and appends the terminal condition.
C6_TerminalInsertionFrame ==
  ~Terminal(Conditions) =>
    \A t \in {MXJobSucceeded, MXJobFailed} :
      LET c2 == setCondition(Conditions, newCondition(t, ReasonOf(t), clock))
      IN /\ Len(c2) = Len(Conditions) + 1
         /\ SubSeq(c2, 1, Len(Conditions)) = Downgraded(Conditions)
         /\ Last(c2) = [newCondition(t, ReasonOf(t), clock)
                         EXCEPT !.LastTransitionTime = Last(c2).LastTransitionTime]

\* [Created, Running(false), terminal]: a terminal condition was inserted into
\* a list holding Created and Running.
C6_Witness ==
  /\ Len(Conditions) = 3
  /\ Conditions[1].Type = MXJobCreated /\ Conditions[1].Status = ConditionTrue
  /\ Conditions[2].Type = MXJobRunning /\ Conditions[2].Status = ConditionFalse
  /\ Conditions[3].Type \in {MXJobSucceeded, MXJobFailed}
  /\ Conditions[3].Status = ConditionTrue

\* The topology branch of the call `in` applies Succeeded / Running.
TopologySucceeds(in) ==
  \/ in.containScheduler /\ in.rtype = MXReplicaTypeScheduler /\ ExpectedOf(in) = 0
  \/ /\ ~in.containScheduler
     /\ in.rtype \in {MXReplicaTypeWorker, MXReplicaTypeTuner}
     /\ (ExpectedOf(in) = 0 \/ in.schedulerCompleted)

TopologyRuns(in) ==
  \/ in.containScheduler /\ in.rtype = MXReplicaTypeScheduler /\ RunningOf(in) > 0
  \/ /\ ~in.containScheduler
     /\ in.rtype \in {MXReplicaTypeWorker, MXReplicaTypeTuner}
     /\ ~(ExpectedOf(in) = 0 \/ in.schedulerCompleted)
     /\ RunningOf(in) > 0

LastIs(conds, t) ==
  conds # <<>> /\ Last(conds).Type = t /\ Last(conds).Status = ConditionTrue

\* C7 (as stated): a call on a non-terminal status with failed > 0 and
\* restart = false ends with Failed (status true) as the last condition and
\* completionTime set, whatever the topology branch has applied.
C7_FailedLast ==
  \A in \in Calls :
    (~Terminal(Conditions) /\ FailedOf(in) > 0 /\ ~in.restart) =>
      LET j1 == updateStatusSingle(Job, in)
      IN LastIs(j1.Conditions, MXJobFailed) /\ j1.CompletionTime # <<>>

\* C7 (amended): such a call ends with completionTime set; Failed (status true)
\* is the last condition, also after the topology branch applied Running (kept
\* with status false), unless the topology branch applied Succeeded: then
\* Succeeded stays last and no Failed entry is added.
C7_FailedLastUnlessSucceeded ==
  \A in \in Calls :
    (~Terminal(Conditions) /\ FailedOf(in) > 0 /\ ~in.restart) =>
      LET j1 == updateStatusSingle(Job, in)
      IN /\ j1.CompletionTime # <<>>
         /\ IF TopologySucceeds(in)
            THEN LastIs(j1.Conditions, MXJobSucceeded) /\ ~HasType(j1.Conditions, MXJobFailed)
            ELSE /\ LastIs(j1.Conditions, MXJobFailed)
                 /\ ~HasType(j1.Conditions, MXJobSucceeded)
                 /\ TopologyRuns(in) =>
                      \E i \in 1..Len(j1.Conditions) :
                        /\ j1.Conditions[i].Type = MXJobRunning
                        /\ j1.Conditions[i].Status = ConditionFalse

\* Running, the completion time and Failed were written at consecutive clock
\* reads: Failed is last, Running is false.
C7_Witness ==
  /\ LastIs(Conditions, MXJobFailed)
  /\ CompletionTime = <<Last(Conditions).LastUpdateTime - 1>>
  /\ \E i \in 1..Len(Conditions) :
       /\ Conditions[i].Type = MXJobRunning
       /\ Conditions[i].Status = ConditionFalse
       /\ Conditions[i].LastUpdateTime = Last(Conditions).LastUpdateTime - 2

\* C8: a call on a non-terminal status with failed > 0 and restart = true whose
\* topology branch does not apply Succeeded ends with Restarting (status true)
\* last, no Running entry, completionTime unset and the status non-terminal.
C8_RestartingLast ==
  \A in \in Calls :
    (~Terminal(Conditions) /\ FailedOf(in) > 0 /\ in.restart /\ ~TopologySucceeds(in)) =>
      LET j1 == updateStatusSingle(Job, in)
      IN /\ LastIs(j1.Conditions, MXJobRestarting)
         /\ ~HasType(j1.Conditions, MXJobRunning)
         /\ j1.CompletionTime = <<>>
         /\ ~Terminal(j1.Conditions)

\* A call applied Restarting to [Created, Running]: [Created, Restarting].
C8_Witness ==
  /\ StartTime # <<>>
  /\ Len(Conditions) = 2
  /\ Conditions[1].Type = MXJobCreated
  /\ LastIs(Conditions, MXJobRestarting)
  /\ Last(Conditions).LastTransitionTime < Last(Conditions).LastUpdateTime
  /\ CompletionTime = <<>>

\* C9: scheduler topology, scheduler group, failed = 0, on an empty status:
\* active > 0 and expected # 0 gives exactly [Running], completionTime unset;
\* expected = 0 ends with Succeeded and completionTime set; both active > 0 and
\* expected = 0 give [Running(false), Succeeded].
C9_SchedulerTopology ==
  (Conditions = <<>> /\ CompletionTime = <<>>) =>
    \A in \in Calls :
      (in.containScheduler /\ in.rtype = MXReplicaTypeScheduler /\ FailedOf(in) = 0) =>
        LET j1 == updateStatusSingle(Job, in)
            c1 == j1.Conditions
        IN /\ (RunningOf(in) > 0 /\ ExpectedOf(in) # 0) =>
                /\ Len(c1) = 1
                /\ LastIs(c1, MXJobRunning)
                /\ j1.CompletionTime = <<>>
           /\ ExpectedOf(in) = 0 =>
                /\ LastIs(c1, MXJobSucceeded)
                /\ j1.CompletionTime # <<>>
           /\ (RunningOf(in) > 0 /\ ExpectedOf(in) = 0) =>
                /\ Len(c1) = 2
                /\ c1[1].Type = MXJobRunning /\ c1[1].Status = ConditionFalse
                /\ c1[1].LastUpdateTime < c1[2].LastUpdateTime
                /\ j1.applied = <<MXJobRunning, MXJobSucceeded>>

\* The start time, Running, the completion time and Succeeded were written at
\* consecutive clock reads on a status that was empty.
C9_Witness ==
  /\ Len(Conditions) = 2
  /\ StartTime = <<Conditions[1].LastUpdateTime - 1>>
  /\ CompletionTime = <<Conditions[1].LastUpdateTime + 1>>
  /\ Conditions[2].LastUpdateTime = Conditions[1].LastUpdateTime + 2
  /\ Conditions[1].Type = MXJobRunning /\ Conditions[1].Status = ConditionFalse
  /\ LastIs(Conditions, MXJobSucceeded)
  /\ MXReplicaTypeScheduler \in DOMAIN MXReplicaStatuses
  /\ MXReplicaStatuses[MXReplicaTypeScheduler].Active > 0
  /\ MXReplicaStatuses[MXReplicaTypeScheduler].Failed = 0
  /\ CompletionTime # <<>>

\* C10: scheduler-less topology, Worker or Tuner group, failed = 0, on a
\* non-terminal status: expected = 0 or schedulerCompleted sets completionTime
\* and applies Succeeded only (no Running, even with active > 0); otherwise
\* active > 0 applies Running and leaves completionTime unset; otherwise the
\* conditions are unchanged.
C10_SchedulerlessTopology ==
  ~Terminal(Conditions) =>
    \A in \in Calls :
      (/\ ~in.containScheduler
       /\ in.rtype \in {MXReplicaTypeWorker, MXReplicaTypeTuner}
       /\ FailedOf(in) = 0) =>
        LET j1 == updateStatusSingle(Job, in)
        IN IF ExpectedOf(in) = 0 \/ in.schedulerCompleted
           THEN /\ j1.CompletionTime # <<>>
                /\ LastIs(j1.Conditions, MXJobSucceeded)
                /\ j1.applied = <<MXJobSucceeded>>
                /\ \A i \in 1..Len(j1.Conditions) :
                     j1.Conditions[i].Type = MXJobRunning =>
                       j1.Conditions[i].LastUpdateTime < clock
           ELSE IF RunningOf(in) > 0
           THEN /\ LastIs(j1.Conditions, MXJobRunning)
                /\ j1.applied = <<MXJobRunning>>
                /\ j1.CompletionTime = <<>>
           ELSE /\ j1.Conditions = Conditions
                /\ j1.CompletionTime = CompletionTime

\* The only group is Tuner with an active pod, and the job succeeded without
\* a Running condition.
C10_Witness ==
  /\ Len(Conditions) = 1
  /\ DOMAIN MXReplicaStatuses = {MXReplicaTypeTuner}
  /\ MXReplicaStatuses[MXReplicaTypeTuner].Active > 0
  /\ MXReplicaStatuses[MXReplicaTypeTuner].Failed = 0
  /\ LastIs(Conditions, MXJobSucceeded)
  /\ ~HasType(Conditions, MXJobRunning)
  /\ CompletionTime # <<>>
\* The call `in` is for a group no topology branch handles.
Unhandled(in) ==
  \/ in.containScheduler /\ in.rtype # MXReplicaTypeScheduler
  \/ ~in.containScheduler /\ in.rtype \notin {MXReplicaTypeWorker, MXReplicaTypeTuner}

\* C11 (as stated): a call for a group no topology branch handles leaves the
\* conditions list and completionTime unchanged and returns no error, whatever
\* the group's counts and the restart flag.
C11_UnhandledNoOp ==
  \A in \in Calls :
    Unhandled(in) =>
      LET j1 == updateStatusSingle(Job, in)
      IN /\ j1.Conditions = Conditions
         /\ j1.CompletionTime = CompletionTime
         /\ j1.ret = "nil"

\* C11 (amended): such a call returns no error and its topology branch applies
\* nothing; with failed = 0 the conditions list and completionTime are
\* unchanged, with failed > 0 the failure branch alone acts (Restarting on
\* restart, else completionTime and Failed).
C11_UnhandledOnlyFailureBranch ==
  \A in \in Calls :
    Unhandled(in) =>
      LET j1 == updateStatusSingle(Job, in)
      IN /\ j1.ret = "nil"
         /\ IF FailedOf(in) = 0
            THEN /\ j1.applied = <<>>
                 /\ j1.Conditions = Conditions
                 /\ j1.CompletionTime = CompletionTime
            ELSE /\ j1.applied = <<IF in.restart THEN MXJobRestarting ELSE MXJobFailed>>
                 /\ IF Terminal(Conditions)
                    THEN j1.Conditions = Conditions /\ j1.CompletionTime = CompletionTime
                    ELSE IF in.restart
                    THEN /\ LastIs(j1.Conditions, MXJobRestarting)
                         /\ j1.CompletionTime = <<>>
                    ELSE /\ LastIs(j1.Conditions, MXJobFailed)
                         /\ j1.CompletionTime # <<>>

\* The start time is set and the only group, the scheduler with an active pod
\* and no failed one, has left no condition: in a job without a scheduler role
\* a call for it changes nothing.
C11_Witness ==
  /\ StartTime # <<>>
  /\ Conditions = <<>>
  /\ CompletionTime = <<>>
  /\ DOMAIN MXReplicaStatuses = {MXReplicaTypeScheduler}
  /\ MXReplicaStatuses[MXReplicaTypeScheduler].Active > 0
  /\ MXReplicaStatuses[MXReplicaTypeScheduler].Failed = 0
  /\ \E in \in Calls :
       Unhandled(in) /\ StatusOf(updateStatusSingle(Job, in)) = StatusOf(Job)

\* C12: when the key lookup fails the call returns the error and changes
\* nothing: startTime, completionTime, conditions, replica counters and the
\* work queue are as before.
C12_KeyErrorNoChange ==
  \A in \in Calls :
    LET j1 == updateStatusSingle(Job, [in EXCEPT !.keyErr = TRUE])
    IN /\ j1.ret = "err"
       /\ j1.applied = <<>>
       /\ StatusOf(j1) = StatusOf(Job)
       /\ j1.AddAfter = AddAfter
       /\ j1.clock = clock

\* A fresh job with a deadline and a failed pod, where a call whose key lookup
\* succeeds changes the status and one whose lookup fails returns the error.
C12_Witness ==
  /\ StartTime = <<>>
  /\ ActiveDeadlineSeconds
  /\ \E in \in Calls :
       /\ FailedOf(in) > 0
       /\ StatusOf(updateStatusSingle(Job, in)) # StatusOf(Job)
       /\ updateStatusSingle(Job, [in EXCEPT !.keyErr = TRUE]).ret = "err"

Zero == [Active |-> 0, Succeeded |-> 0, Failed |-> 0]

\* The counter of a group a pod in `phase` is counted in, <<>> for no counter.
CounterOf(phase) ==
  IF phase = PodRunning THEN <<"Active">>
  ELSE IF phase = PodSucceeded THEN <<"Succeeded">>
  ELSE IF phase = PodFailed THEN <<"Failed">>
  ELSE <<>>

\* C13: replica status aggregation. initializeMXReplicaStatuses(r) zeroes the
\* counters of r and touches no other group; updateMXJobReplicaStatuses(r,
\* phase) adds one to the counter of the phase (Running -> Active, Succeeded ->
\* Succeeded, Failed -> Failed), to nothing for another phase, and touches no
\* other counter; a step that changes the counters is one of the two and leaves
\* the conditions, startTime and completionTime alone.
C13_ReplicaStatuses ==
  [][MXReplicaStatuses' # MXReplicaStatuses =>
       /\ \A r \in ReplicaTypes :
            LET s1 == initializeMXReplicaStatuses(MXReplicaStatuses, r)
            IN /\ DOMAIN s1 = DOMAIN MXReplicaStatuses \cup {r}
               /\ s1[r] = Zero
               /\ \A q \in DOMAIN MXReplicaStatuses \ {r} : s1[q] = MXReplicaStatuses[q]
       /\ \A r \in DOMAIN MXReplicaStatuses, phase \in PodPhases :
            LET s1 == updateMXJobReplicaStatuses(MXReplicaStatuses, r, phase)
                k == CounterOf(phase)
            IN /\ DOMAIN s1 = DOMAIN MXReplicaStatuses
               /\ \A q \in DOMAIN s1, f \in {"Active", "Succeeded", "Failed"} :
                    s1[q][f] = MXReplicaStatuses[q][f]
                                 + (IF q = r /\ k = <<f>> THEN 1 ELSE 0)
       /\ UNCHANGED <<StartTime, CompletionTime, Conditions>>
       /\ \/ \E r \in ReplicaTypes :
               MXReplicaStatuses' = initializeMXReplicaStatuses(MXReplicaStatuses, r)
          \/ \E r \in DOMAIN MXReplicaStatuses, phase \in PodPhases :
               MXReplicaStatuses' = updateMXJobReplicaStatuses(MXReplicaStatuses, r, phase)]_vars

\* Two pods were counted in one group, one active and one failed, next to a
\* group that is initialized and empty, on a status that holds a condition.
C13_Witness ==
  /\ Conditions # <<>>
  /\ \E r, q \in DOMAIN MXReplicaStatuses :
       /\ r # q
       /\ MXReplicaStatuses[r] = [Active |-> 1, Succeeded |-> 0, Failed |-> 1]
       /\ MXReplicaStatuses[q] = Zero
\* The most recent entry of type t, <<>> when there is none.
MostRecent(conds, t) ==
  LET idx == {i \in 1..Len(conds) : conds[i].Type = t}
  IN IF idx = {} THEN <<>>
     ELSE <<conds[CHOOSE i \in idx : \A k \in idx : k <= i]>>

\* C14: lastTransitionTime. An inserted condition of type t carries the
\* lastTransitionTime of the previous entry of type t when that entry has the
\* same status, and otherwise (no entry of type t in the list) has the
\* insertion time; its lastUpdateTime is the insertion time.
C14_TransitionTime ==
  \A t \in ConditionTypes :
    LET new == newCondition(t, ReasonOf(t), clock)
        c2 == setCondition(Conditions, new)
        prev == MostRecent(Conditions, t)
    IN c2 # Conditions =>
         /\ Last(c2).LastUpdateTime = clock
         /\ Last(c2).LastTransitionTime =
              IF prev # <<>> /\ prev[1].Status = new.Status
              THEN prev[1].LastTransitionTime
              ELSE clock

\* C15: a call whose key lookup succeeds sets startTime iff it was unset, and
\* calls WorkQueue.AddAfter iff startTime was unset and a deadline is
\* configured; so AddAfter is called at most once per job, by the call that
\* sets startTime.
C15_StartTimeAndDeadline ==
  [](/\ AddAfter = (IF StartTime # <<>> /\ ActiveDeadlineSeconds THEN 1 ELSE 0)
     /\ \A in \in Calls :
          LET j1 == updateStatusSingle(Job, in)
          IN /\ j1.StartTime = (IF StartTime = <<>> THEN <<clock>> ELSE StartTime)
             /\ j1.AddAfter = AddAfter
                                + (IF StartTime = <<>> /\ ActiveDeadlineSeconds THEN 1 ELSE 0))

\* A job with a deadline whose status is terminal: AddAfter was called once,
\* and a further call is possible that does not call it again.
C15_Witness ==
  /\ ActiveDeadlineSeconds
  /\ AddAfter = 1
  /\ Terminal(Conditions)
  /\ clock <= MaxClock
  /\ \E in \in Calls : updateStatusSingle(Job, in).AddAfter = 1

\* The list setCondition is meant to build when it inserts `new`: entries of
\* the same type and the Running/Restarting counterpart removed, Running set to
\* false by a terminal type, `new` appended.
Inserted(conds, new) ==
  LET keep(c) == /\ c.Type # new.Type
                 /\ ~(new.Type = MXJobRestarting /\ c.Type = MXJobRunning)
                 /\ ~(new.Type = MXJobRunning /\ c.Type = MXJobRestarting)
      kept == SelectSeq(conds, keep)
  IN Append(IF new.Type \in {MXJobSucceeded, MXJobFailed} THEN Downgraded(kept) ELSE kept,
            new)

\* C16: on a non-terminal status, applying a condition of type t when the
\* list holds a status-true entry of type t with the same reason, wherever it
\* sits, changes nothing; in every other case the condition is appended last
\* after the same-type entry and the Running/Restarting counterpart are removed.
C16_NoOpOnUnchanged ==
  ~Terminal(Conditions) =>
    \A t \in ConditionTypes :
      LET new == newCondition(t, ReasonOf(t), clock)
          c2 == setCondition(Conditions, new)
      IN IF \E i \in 1..Len(Conditions) :
              /\ Conditions[i].Type = t
              /\ Conditions[i].Status = ConditionTrue
              /\ Conditions[i].Reason = new.Reason
         THEN c2 = Conditions
         ELSE /\ Len(c2) >= 1
              /\ WithoutUpdateTime(c2) =
                   WithoutUpdateTime(Inserted(Conditions,
                     [new EXCEPT !.LastTransitionTime = Last(c2).LastTransitionTime]))
              /\ Last(c2).LastUpdateTime = clock

\* C17 (as stated): Restarting is non-terminal. From a status whose last
\* condition is Restarting, a call for a completion-determining group with
\* failed = 0, active > 0 and expected # 0 replaces Restarting by Running; a
\* call for such a group with expected = 0 (or schedulerCompleted without a
\* scheduler) appends Succeeded and sets completionTime; a call with
\* failed > 0 and restart = false appends Failed and sets completionTime.
C17_RestartingNonTerminal ==
  LastIs(Conditions, MXJobRestarting) =>
    \A in \in Calls :
      LET j1 == updateStatusSingle(Job, in)
      IN /\ (~Unhandled(in) /\ FailedOf(in) = 0 /\ RunningOf(in) > 0 /\ ExpectedOf(in) # 0) =>
              /\ LastIs(j1.Conditions, MXJobRunning)
              /\ ~HasType(j1.Conditions, MXJobRestarting)
         /\ TopologySucceeds(in) =>
              LastIs(j1.Conditions, MXJobSucceeded) /\ j1.CompletionTime # <<>>
         /\ (FailedOf(in) > 0 /\ ~in.restart) =>
              LastIs(j1.Conditions, MXJobFailed) /\ j1.CompletionTime # <<>>

\* C17 (amended): from a status whose last condition is Restarting, a call
\* whose topology branch applies Succeeded ends with Succeeded last and
\* completionTime set, whatever failed and restart are; a call for a
\* completion-determining group with failed = 0 and active > 0 that does not
\* apply Succeeded replaces Restarting by Running and leaves completionTime
\* unset; a call with failed > 0 and restart = false that does not apply
\* Succeeded ends with Failed last and completionTime set.
C17_RestartingLeavesByTopology ==
  [](LastIs(Conditions, MXJobRestarting) =>
       /\ ~Terminal(Conditions)
       /\ CompletionTime = <<>>
       /\ \A in \in Calls :
            LET j1 == updateStatusSingle(Job, in)
            IN IF TopologySucceeds(in)
               THEN /\ LastIs(j1.Conditions, MXJobSucceeded)
                    /\ j1.CompletionTime # <<>>
                    /\ ~HasType(j1.Conditions, MXJobFailed)
               ELSE /\ (~Unhandled(in) /\ FailedOf(in) = 0 /\ RunningOf(in) > 0) =>
                         /\ LastIs(j1.Conditions, MXJobRunning)
                         /\ ~HasType(j1.Conditions, MXJobRestarting)
                         /\ j1.CompletionTime = <<>>
                    /\ (FailedOf(in) > 0 /\ ~in.restart) =>
                         /\ LastIs(j1.Conditions, MXJobFailed)
                         /\ j1.CompletionTime # <<>>)

\* Restarting is last, and the same status admits a call that replaces it by
\* Running, one that ends with Succeeded and one that ends with Failed.
C17_Witness ==
  /\ LastIs(Conditions, MXJobRestarting)
  /\ clock <= MaxClock
  /\ \E in \in Calls :
       LET j1 == updateStatusSingle(Job, in)
       IN /\ FailedOf(in) = 0
          /\ LastIs(j1.Conditions, MXJobRunning)
          /\ ~HasType(j1.Conditions, MXJobRestarting)
  /\ \E in \in Calls :
       LET j1 == updateStatusSingle(Job, in)
       IN LastIs(j1.Conditions, MXJobSucceeded) /\ j1.CompletionTime # <<>>
  /\ \E in \in Calls :
       LET j1 == updateStatusSingle(Job, in)
       IN LastIs(j1.Conditions, MXJobFailed) /\ j1.CompletionTime # <<>>

\* C18: completionTime tracks terminality. completionTime is set iff the list
\* holds a Succeeded or Failed entry with status true, and the list never
\* holds both a Succeeded and a Failed entry.
C18_CompletionTimeTracksTerminal ==
  /\ CompletionTime # <<>> <=> Terminal(Conditions)
  /\ ~(HasType(Conditions, MXJobSucceeded) /\ HasType(Conditions, MXJobFailed))
  /\ \A i \in 1..Len(Conditions) :
       Conditions[i].Type \in {MXJobSucceeded, MXJobFailed} =>
         Conditions[i].Status = ConditionTrue

\* A call has applied Succeeded and set completionTime, and a further call
\* with a failed pod and restart = false hands Failed to the terminal status.
C18_Witness ==
  /\ LastIs(Conditions, MXJobSucceeded)
  /\ CompletionTime # <<>>
  /\ clock <= MaxClock
  /\ \E in \in Calls :
       LET j1 == updateStatusSingle(Job, in)
       IN /\ FailedOf(in) > 0 /\ ~in.restart
          /\ j1.applied # <<>> /\ Last(j1.applied) = MXJobFailed
          /\ ~HasType(j1.Conditions, MXJobFailed)

\* startTime, completionTime and the conditions without lastUpdateTime.
UpToUpdateTime(j) ==
  <<j.StartTime, j.CompletionTime, WithoutUpdateTime(j.Conditions)>>

\* C19: idempotence up to lastUpdateTime. For every input tuple, failing key
\* lookup included, a second call with the same inputs leaves startTime,
\* completionTime and the (type, status, reason, lastTransitionTime) of every
\* condition as the first call left them; the list differs at all only after
\* a call that applies both Running and Restarting.
C19_IdempotentUpToUpdateTime ==
  [](\A in \in Calls \cup KeyErrInputs(MXReplicaStatuses) :
       LET j1 == updateStatusSingle(Job, in)
           j2 == updateStatusSingle(j1, in)
       IN /\ UpToUpdateTime(j2) = UpToUpdateTime(j1)
          /\ j2.Conditions # j1.Conditions => AppliesBoth(j1))

\* Two calls with the same inputs have each applied Running and Restarting:
\* Restarting is last, touched three clock readings after its transition time.
C19_Witness ==
  /\ LastIs(Conditions, MXJobRestarting)
  /\ ~HasType(Conditions, MXJobRunning)
  /\ Last(Conditions).LastUpdateTime = Last(Conditions).LastTransitionTime + 3
  /\ CompletionTime = <<>>

\* C20: getCondition(status, t) is the most recent condition of type t, and
\* nothing when the list holds no condition of type t.
C20_GetCondition ==
  \A t \in ConditionTypes :
    getCondition(Conditions, t) = MostRecent(Conditions, t)
====
